---- MODULE Spec2Model ----
(***************************************************************************)
(* CardDAV Birthdays: the coordinator's refresh cycle, the response        *)
(* parser, the per-contact birthday projection and the global "next        *)
(* birthday" aggregation, modelled from custom_components/carddav_birthdays*)
(* (__init__.py and sensor.py).                                            *)
(*                                                                         *)
(* Python strings whose characters the code inspects (the BDAY value) are  *)
(* sequences of one-character strings; uid and name are opaque strings.    *)
(* Python's None is the record None; a date is [year, month, day].         *)
(***************************************************************************)
EXTENDS Integers, Sequences, FiniteSets, TLC

VARIABLES
    phase,          \* "init": the config entry is not set up yet (no first refresh
                    \* has succeeded); "running": the sensor platform is set up
    data,           \* coordinator.data: None or a sequence of Contact
    response,       \* the server's answer to the last REPORT request
    created_uids,   \* async_setup_entry's closure variable created_uids
    sensors,        \* the CardDavBirthdaySensor objects created so far, in order
    today,          \* date.today()
    aggregate       \* the last value of CardDavNextBirthdaySensor._get_next_birthday_data

vars == <<phase, data, response, created_uids, sensors, today, aggregate>>

None == [none |-> TRUE]

\* A Python int where None is possible too (TLC compares records with records only).
IntVal(v) == [int |-> v]

\* A result that has not been computed yet (an entity whose state was never written).
Pending == [pending |-> TRUE]

-----------------------------------------------------------------------------
(* datetime.date *)

IsLeap(y) == y % 4 = 0 /\ (y % 100 # 0 \/ y % 400 = 0)

DaysInMonth(y, m) ==
    IF m = 2 THEN (IF IsLeap(y) THEN 29 ELSE 28)
    ELSE IF m \in {4, 6, 9, 11} THEN 30 ELSE 31

\* date(y, m, d) raises ValueError unless this holds (MINYEAR = 1, MAXYEAR = 9999).
ValidDate(y, m, d) ==
    /\ y \in 1..9999
    /\ m \in 1..12
    /\ d >= 1
    /\ d <= DaysInMonth(y, m)

Date(y, m, d) == [year |-> y, month |-> m, day |-> d]

\* a < b on dates
DateLT(a, b) ==
    \/ a.year < b.year
    \/ a.year = b.year /\ a.month < b.month
    \/ a.year = b.year /\ a.month = b.month /\ a.day < b.day

RECURSIVE DaysBeforeMonth(_, _)
DaysBeforeMonth(y, m) ==
    IF m <= 1 THEN 0 ELSE DaysBeforeMonth(y, m - 1) + DaysInMonth(y, m - 1)

\* date.toordinal()
ToOrdinal(d) ==
    LET y == d.year - 1
    IN  y * 365 + (y \div 4) - (y \div 100) + (y \div 400)
        + DaysBeforeMonth(d.year, d.month) + d.day

\* (a - b).days
DaysBetween(a, b) == ToOrdinal(a) - ToOrdinal(b)

-----------------------------------------------------------------------------
(* str operations the code applies to the BDAY value *)

DigitChars == <<"0", "1", "2", "3", "4", "5", "6", "7", "8", "9">>

IsDigit(c) == \E i \in 1..10 : DigitChars[i] = c

DigitVal(c) == (CHOOSE i \in 1..10 : DigitChars[i] = c) - 1

\* s[i] when i is an index of s, else a character that matches nothing
At(s, i) == IF i \in 1..Len(s) THEN s[i] ELSE "$"

\* s.split('T')[0]: the part of s before its first 'T', or all of s
SplitT0(s) ==
    IF \E i \in 1..Len(s) : s[i] = "T"
    THEN LET k == CHOOSE i \in 1..Len(s) :
                      /\ s[i] = "T"
                      /\ \A j \in 1..(i - 1) : s[j] # "T"
         IN  SubSeq(s, 1, k - 1)
    ELSE s

\* s.startswith('--')
StartsWithDashes(s) == Len(s) >= 2 /\ s[1] = "-" /\ s[2] = "-"

\* s[2:]
DropTwo(s) == SubSeq(s, 3, Len(s))

\* The number of characters the directive %m consumes at position i of s, 0 when it
\* does not match: the regular expression (1[0-2]|0[1-9]|[1-9]).
MonthWidth(s, i) ==
    LET a == At(s, i)
        b == At(s, i + 1)
    IN  IF a = "1" /\ b \in {"0", "1", "2"} THEN 2
        ELSE IF a = "0" /\ IsDigit(b) /\ b # "0" THEN 2
        ELSE IF IsDigit(a) /\ a # "0" THEN 1
        ELSE 0

\* The same for %d: (3[0-1]|[1-2]\d|0[1-9]|[1-9]| [1-9]).
DayWidth(s, i) ==
    LET a == At(s, i)
        b == At(s, i + 1)
    IN  IF a = "3" /\ b \in {"0", "1"} THEN 2
        ELSE IF a \in {"1", "2"} /\ IsDigit(b) THEN 2
        ELSE IF a = "0" /\ IsDigit(b) /\ b # "0" THEN 2
        ELSE IF IsDigit(a) /\ a # "0" THEN 1
        ELSE IF a = " " /\ IsDigit(b) /\ b # "0" THEN 2
        ELSE 0

\* int() of the digits s[i .. i+w-1], a leading blank counting as nothing
RECURSIVE IntOf(_, _, _)
IntOf(s, i, w) ==
    IF w = 0 THEN 0
    ELSE IntOf(s, i, w - 1) * 10
         + (IF IsDigit(s[i + w - 1]) THEN DigitVal(s[i + w - 1]) ELSE 0)

\* The date of the year, month and day strptime has matched, None where
\* datetime raises ValueError (day out of range for the month, year 0).
DateOrNone(y, m, d) == IF ValidDate(y, m, d) THEN Date(y, m, d) ELSE None

\* strptime after a month of mw and a day of dw characters have matched.
StrptimeDay(s, mw, dw) ==
    IF dw = 0 \/ Len(s) # 6 + mw + dw THEN None
    ELSE DateOrNone(IntOf(s, 1, 4), IntOf(s, 6, mw), IntOf(s, 7 + mw, dw))

\* strptime after the year, the dash and a month of mw characters have matched.
StrptimeMonth(s, mw) ==
    IF mw = 0 \/ At(s, 6 + mw) # "-" THEN None
    ELSE StrptimeDay(s, mw, DayWidth(s, 7 + mw))

\* datetime.strptime(s, "%Y-%m-%d").date(): the date, or None where strptime raises
\* ValueError (the format does not match, unconverted data remains, or the day is
\* out of range for the month, or the year is 0).
Strptime(s) ==
    IF /\ IsDigit(At(s, 1)) /\ IsDigit(At(s, 2))
       /\ IsDigit(At(s, 3)) /\ IsDigit(At(s, 4))
       /\ At(s, 5) = "-"
    THEN StrptimeMonth(s, MonthWidth(s, 6))
    ELSE None

-----------------------------------------------------------------------------
(* CardDavBirthdaySensor._get_next_birthday, the computation after the lookup *)

\* The mock year of a birthday without a year.
MockYear == <<"2", "0", "0", "0">>

\* What the projection returns for (None, None) and for (next_bday, age).
NoProjection == [next |-> None, age |-> None]

\* bday.replace(year=y), falling back to date(y, 3, 1) on ValueError; None when
\* that raises too (the outer except Exception then returns (None, None)).
ReplaceYear(bday, y) ==
    IF ValidDate(y, bday.month, bday.day) THEN Date(y, bday.month, bday.day)
    ELSE IF ValidDate(y, 3, 1) THEN Date(y, 3, 1)
    ELSE None

\* ProjectionOf with the age computed whether or not the year is known.
ProjectionOf_AgeAlways(bday, has_year, next_bday) ==
    IF next_bday = None THEN NoProjection
    ELSE [next |-> next_bday, age |-> IntVal(next_bday.year - bday.year)]

\* Lines 148-152: the returned pair; (None, None) where date() raised in the
\* except branch.
ProjectionOf(bday, has_year, next_bday) ==
    IF next_bday = None THEN NoProjection
    ELSE [next |-> next_bday,
          age  |-> IF has_year THEN IntVal(next_bday.year - bday.year) ELSE None]

\* Lines 142-146: next year's birthday where this year's is before today.
RollOver(bday, tdy, this_year) ==
    IF this_year # None /\ DateLT(this_year, tdy)
    THEN ReplaceYear(bday, tdy.year + 1)
    ELSE this_year

\* Lines 134-152: from the parsed birthday to (next_bday, age).
NextFromParsed(bday, has_year, tdy) ==
    IF bday = None THEN NoProjection
    ELSE ProjectionOf(bday, has_year,
                      RollOver(bday, tdy, ReplaceYear(bday, tdy.year)))

\* Lines 106-155 of sensor.py, for the birthday string bday_str and date.today() = tdy.
NextBirthday(bday_str, tdy) ==
    IF Len(bday_str) >= 10
    THEN NextFromParsed(Strptime(SplitT0(bday_str)), TRUE, tdy)
    ELSE IF StartsWithDashes(bday_str)
    THEN NextFromParsed(Strptime(MockYear \o DropTwo(bday_str)), FALSE, tdy)
    ELSE NoProjection

-----------------------------------------------------------------------------
(* CardDavNextBirthdaySensor._get_next_birthday_data *)

\* coordinator.data holding the list cs (DataUpdateCoordinator.data is None until
\* a refresh has succeeded).
Loaded(cs) == [contacts |-> cs]

\* Lines 222-228: the tuple appended to upcoming.
UpcomingTuple(name, bday, has_year, tdy, next_bday) ==
    IF next_bday = None THEN None
    ELSE [days_diff |-> DaysBetween(next_bday, tdy),
          next_bday |-> next_bday,
          name      |-> name,
          age       |-> IF has_year THEN IntVal(next_bday.year - bday.year)
                        ELSE None]

\* NextYearIfPast moving a birthday that is today to next year as well.
NextYearIfPast_NotAfter(bday, tdy, next_bday) ==
    IF next_bday = None THEN None
    ELSE IF ~ DateLT(tdy, next_bday) THEN ReplaceYear(bday, tdy.year + 1)
    ELSE next_bday

\* Lines 216-220.
NextYearIfPast(bday, tdy, next_bday) ==
    IF next_bday = None THEN None
    ELSE IF DateLT(next_bday, tdy) THEN ReplaceYear(bday, tdy.year + 1)
    ELSE next_bday

\* Lines 211-228, for the parsed birthday; None where strptime raised.
UpcomingFromParsed(name, bday, has_year, tdy) ==
    IF bday = None THEN None
    ELSE UpcomingTuple(name, bday, has_year, tdy,
                       NextYearIfPast(bday, tdy, ReplaceYear(bday, tdy.year)))

\* Lines 198-231: the tuple the loop appends to upcoming for one contact, or None
\* where the loop continues without appending (the else branch, or an exception).
UpcomingEntry(contact, tdy) ==
    IF Len(contact.birthday) >= 10
    THEN UpcomingFromParsed(contact.name, Strptime(SplitT0(contact.birthday)),
                            TRUE, tdy)
    ELSE IF StartsWithDashes(contact.birthday)
    THEN UpcomingFromParsed(contact.name,
                            Strptime(MockYear \o DropTwo(contact.birthday)),
                            FALSE, tdy)
    ELSE None

\* Line 228, or continue.
AppendEntry(upcoming, entry) ==
    IF entry = None THEN upcoming ELSE Append(upcoming, entry)

\* Lines 195-231: the list upcoming after the loop over contacts.
RECURSIVE Upcoming(_, _)
Upcoming(contacts, tdy) ==
    IF contacts = <<>> THEN <<>>
    ELSE AppendEntry(Upcoming(SubSeq(contacts, 1, Len(contacts) - 1), tdy),
                     UpcomingEntry(contacts[Len(contacts)], tdy))

\* Line 237: upcoming.sort(key=lambda x: x[0]). list.sort is stable: an entry comes
\* after the entries with a smaller key and after the earlier entries with its key.
SortPosition(upcoming, i) ==
    1 + Cardinality({j \in 1..Len(upcoming) :
                        \/ upcoming[j].days_diff < upcoming[i].days_diff
                        \/ /\ upcoming[j].days_diff = upcoming[i].days_diff
                           /\ j < i})

SortByDays(upcoming) ==
    [k \in 1..Len(upcoming) |->
        upcoming[CHOOSE i \in 1..Len(upcoming) : SortPosition(upcoming, i) = k]]

\* Line 243: the entries of the sorted list whose days_diff is min_days.
Matches(sorted, min_days) == SelectSeq(sorted, LAMBDA x : x.days_diff = min_days)

\* FinalAge returning the first age whatever the others are.
FinalAge_First(final_ages) == [single |-> final_ages[1]]

\* Lines 249-253: one age where all are equal, else the list of ages.
FinalAge(final_ages) ==
    IF \A i \in 1..Len(final_ages) : final_ages[i] = final_ages[1]
    THEN [single |-> final_ages[1]]
    ELSE [list |-> final_ages]

\* The value returned for (None, [], None).
EmptyAggregate == [next |-> None, names |-> <<>>, age |-> [single |-> None]]

\* Lines 245-255, for the matches.
AggregateOf(matches) ==
    [next  |-> matches[1].next_bday,
     names |-> [i \in 1..Len(matches) |-> matches[i].name],
     age   |-> FinalAge([i \in 1..Len(matches) |-> matches[i].age])]

\* Lines 240-243, for the sorted list.
AggregateOfSorted(sorted) == AggregateOf(Matches(sorted, sorted[1].days_diff))

\* Lines 233-255, for the list upcoming.
AggregateOfUpcoming(upcoming) ==
    IF upcoming = <<>> THEN EmptyAggregate
    ELSE AggregateOfSorted(SortByDays(upcoming))

\* Lines 188-255, for coordinator.data = d and date.today() = tdy.
NextBirthdayData(d, tdy) ==
    IF d = None THEN EmptyAggregate
    ELSE IF d.contacts = <<>> THEN EmptyAggregate
    ELSE AggregateOfUpcoming(Upcoming(d.contacts, tdy))

-----------------------------------------------------------------------------
(* CardDavCoordinator: _parse_contacts, _fetch_contacts, _async_update_data *)

\* A Python str where None is possible too.
Str(v) == [str |-> v]

\* Contact(uid=uid, name=fn, birthday=str(bday_value))
Contact(uid, fn, bday) == [uid |-> uid, name |-> fn, birthday |-> bday]

\* The name of a card without FN.
UnknownName == "Unknown"

\* ParseCard skipping the cards without FN as well.
ParseCard_NeedsFN(contacts, elem) ==
    IF elem.kind # "vcard" THEN contacts
    ELSE IF elem.uid = None \/ elem.fn = None \/ elem.bday = None THEN contacts
    ELSE IF elem.uid.str = "" THEN contacts
    ELSE Append(contacts, Contact(elem.uid.str, elem.fn.str, elem.bday.str))

\* Lines 152-179: the contacts list after the loop body has run for one
\* address-data element. An element is [kind |-> "empty"] (no text), [kind |->
\* "garbage"] (vobject.readOne raises) or [kind |-> "vcard", uid, fn, bday], each
\* property None where the card has no such line and Str(value) where it has.
ParseCard(contacts, elem) ==
    IF elem.kind = "empty" THEN contacts
    ELSE IF elem.kind = "garbage" THEN contacts
    ELSE LET uid == IF elem.uid # None THEN elem.uid.str ELSE ""
             fn  == IF elem.fn # None THEN elem.fn.str ELSE UnknownName
         IN  IF uid = "" THEN contacts
             ELSE IF elem.bday # None
                  THEN Append(contacts, Contact(uid, fn, elem.bday.str))
                  ELSE contacts

\* Lines 151-179: the loop over address_data_elements.
RECURSIVE ParseCards(_)
ParseCards(elems) ==
    IF elems = <<>> THEN <<>>
    ELSE ParseCard(ParseCards(SubSeq(elems, 1, Len(elems) - 1)), elems[Len(elems)])

\* The value every raised exception ends as: UpdateFailed.
UpdateFailed == [failed |-> TRUE]

\* Lines 135-185, for the body [wellformed, cards] of a response: the list of
\* contacts, or UpdateFailed where ET.fromstring raises ParseError.
ParseContacts(body) ==
    IF ~ body.wellformed THEN UpdateFailed
    ELSE [contacts |-> ParseCards(body.cards)]

\* FetchContacts without the check of the status.
FetchContacts_AnyStatus(resp) ==
    IF resp.transport # "ok" THEN UpdateFailed ELSE ParseContacts(resp)

\* Lines 116-133, for what session.request gives: [transport |-> "error"] where it
\* raises, else [transport |-> "ok", status, wellformed, cards].
FetchContacts(resp) ==
    IF resp.transport # "ok" THEN UpdateFailed
    ELSE IF resp.status # 207 /\ resp.status # 200 THEN UpdateFailed
    ELSE ParseContacts(resp)

\* Lines 84-90: the list of contacts, or UpdateFailed.
AsyncUpdateData(resp) == FetchContacts(resp)

\* DataUpdateCoordinator's refresh: data is set to what _async_update_data returns
\* and is left alone where it raises.
RefreshedData(old, resp) ==
    LET got == AsyncUpdateData(resp)
    IN  IF got = UpdateFailed THEN old ELSE Loaded(got.contacts)

-----------------------------------------------------------------------------
(* sensor.py: async_setup_entry, _on_coordinator_update, CardDavBirthdaySensor *)

\* CardDavBirthdaySensor.__init__ (lines 66-71); state is what the entity last
\* computed in _get_next_birthday.
NewSensor(contact) ==
    [unique_id |-> <<contact.uid, "_birthday">>,
     contact   |-> contact,
     state     |-> Pending]

\* Lines 27-32: one entity for every contact of coordinator.data.
InitialEntities(contacts) == [i \in 1..Len(contacts) |-> NewSensor(contacts[i])]

InitialUids(contacts) == {contacts[i].uid : i \in 1..Len(contacts)}

\* Lines 43-51: the pair <<new_entities, created_uids>> after the loop over
\* current_data, starting from the set created.
RECURSIVE NewEntities(_, _)
NewEntities(current_data, created) ==
    IF current_data = <<>> THEN <<(<<>>), created>>
    ELSE LET n == Len(current_data)
             before == NewEntities(SubSeq(current_data, 1, n - 1), created)
             contact == current_data[n]
         IN  IF contact.uid \notin before[2]
             THEN <<Append(before[1], NewSensor(contact)),
                    before[2] \cup {contact.uid}>>
             ELSE before

\* CurrentContact taking the last contact with the sensor's uid.
CurrentContact_Last(sensor, d) ==
    IF \E i \in 1..Len(d.contacts) : d.contacts[i].uid = sensor.contact.uid
    THEN d.contacts[CHOOSE i \in 1..Len(d.contacts) :
                        /\ d.contacts[i].uid = sensor.contact.uid
                        /\ \A j \in (i + 1)..Len(d.contacts) :
                               d.contacts[j].uid # sensor.contact.uid]
    ELSE sensor.contact

\* Lines 99-102: the first contact of coordinator.data with the sensor's uid, else
\* the contact the sensor holds.
CurrentContact(sensor, d) ==
    IF \E i \in 1..Len(d.contacts) : d.contacts[i].uid = sensor.contact.uid
    THEN d.contacts[CHOOSE i \in 1..Len(d.contacts) :
                        /\ d.contacts[i].uid = sensor.contact.uid
                        /\ \A j \in 1..(i - 1) :
                               d.contacts[j].uid # sensor.contact.uid]
    ELSE sensor.contact

-----------------------------------------------------------------------------
(* The operations *)

\* __init__.py async_setup_entry (lines 43-49) with the sensor platform's
\* async_setup_entry (lines 24-37, 56): the first refresh, and when it succeeds the
\* entities of the contacts found. A failed first refresh raises
\* ConfigEntryNotReady and nothing is set up.
async_setup_entry(resp) ==
    /\ phase = "init"
    /\ response' = resp
    /\ LET got == AsyncUpdateData(resp)
       IN  IF got = UpdateFailed
           THEN UNCHANGED <<phase, data, created_uids, sensors>>
           ELSE /\ data' = Loaded(got.contacts)
                /\ sensors' = InitialEntities(got.contacts)
                /\ created_uids' = InitialUids(got.contacts)
                /\ phase' = "running"
    /\ UNCHANGED <<today, aggregate>>

\* sensor.py lines 41-54, run on data: the new sensors and created_uids.
_on_coordinator_update(d) ==
    IF d = None \/ d.contacts = <<>> THEN <<(<<>>), created_uids>>
    ELSE NewEntities(d.contacts, created_uids)

\* A scheduled refresh of the coordinator, and the listener it calls.
Refresh(resp) ==
    /\ phase = "running"
    /\ response' = resp
    /\ data' = RefreshedData(data, resp)
    /\ LET upd == _on_coordinator_update(data')
       IN  /\ sensors' = sensors \o upd[1]
           /\ created_uids' = upd[2]
    /\ UNCHANGED <<phase, today, aggregate>>

\* CardDavBirthdaySensor._get_next_birthday of the i-th sensor (lines 93-155), as
\* native_value and extra_state_attributes call it.
_get_next_birthday(i) ==
    /\ phase = "running"
    /\ i \in 1..Len(sensors)
    /\ LET current_contact == CurrentContact(sensors[i], data)
       IN  sensors' = [sensors EXCEPT
                          ![i].contact = current_contact,
                          ![i].state = NextBirthday(current_contact.birthday, today)]
    /\ UNCHANGED <<phase, data, response, created_uids, today, aggregate>>

\* CardDavNextBirthdaySensor._get_next_birthday_data (lines 188-255).
_get_next_birthday_data ==
    /\ phase = "running"
    /\ aggregate' = NextBirthdayData(data, today)
    /\ UNCHANGED <<phase, data, response, created_uids, sensors, today>>

-----------------------------------------------------------------------------
(* The inputs: what the server answers, and the day it is *)

\* A card with the given UID, FN and BDAY lines (None: no such line).
VCard(uid, fn, bday) == [kind |-> "vcard", uid |-> uid, fn |-> fn, bday |-> bday]

\* The sequences of at most n elements of S.
SeqsUpTo(S, n) == UNION {[1..k -> S] : k \in 0..n}

\* A request that raised (connection refused, timeout, TLS failure).
TransportError ==
    [transport |-> "error", status |-> 0, wellformed |-> FALSE, cards |-> <<>>]

\* No request was made yet.
NoResponse ==
    [transport |-> "none", status |-> 0, wellformed |-> FALSE, cards |-> <<>>]

HttpResponse(status, wellformed, cards) ==
    [transport |-> "ok", status |-> status, wellformed |-> wellformed,
     cards |-> cards]

\* The answers of a server: a transport error, a status that is neither 207 nor
\* 200 (with a body of error_bodies, which is not read), a body that is not
\* well-formed XML, and 207 or 200 with each envelope of envelopes.
Responses(envelopes, error_bodies) ==
    {TransportError}
    \cup {HttpResponse(s, TRUE, e) : s \in {401, 404}, e \in error_bodies}
    \cup {HttpResponse(s, FALSE, <<>>) : s \in {200, 207, 404}}
    \cup {HttpResponse(s, TRUE, e) : s \in {200, 207}, e \in envelopes}

\* The days date.today() ranges over: the days around the turn of the year, around
\* the end of February and around May 5, of the years 2024 .. 2024 + TodayYearSpan.
TodayYearSpan == 1

TodayYears == 2024..(2024 + TodayYearSpan)

TodayDates ==
    {Date(y, m, d) : y \in TodayYears, m \in {1, 2, 3, 5, 12},
                     d \in {1, 2, 4, 5, 6, 28, 29, 31}}
    \cap {dt \in [year : TodayYears, month : 1..12, day : 1..31] :
            ValidDate(dt.year, dt.month, dt.day)}

\* BDAY values: a year, a month-day part, an optional time.
YearParts == {<<"1", "9", "9", "0">>, <<"2", "0", "0", "0">>, <<"2", "0", "3", "1">>}

MonthDayParts ==
    {<<"0", "1", "-", "0", "1">>, <<"0", "2", "-", "2", "8">>,
     <<"0", "2", "-", "2", "9">>, <<"0", "3", "-", "0", "1">>,
     <<"0", "5", "-", "0", "5">>, <<"1", "2", "-", "3", "1">>,
     <<"0", "2", "-", "3", "0">>, <<"1", "3", "-", "0", "1">>,
     <<"5", "-", "5">>}

TimeParts == {<<>>, <<"T", "0", "0", ":", "0", "0", ":", "0", "0">>}

\* YYYY-MM-DD and YYYY-MM-DDThh:mm:ss, also with a day or month that does not exist
\* and with a month and day of one digit.
FullDateStrings ==
    {y \o <<"-">> \o md \o t : y \in YearParts, md \in MonthDayParts, t \in TimeParts}

\* --MM-DD, and the same with one dash more.
YearlessStrings ==
    {dashes \o md : dashes \in {<<"-", "-">>, <<"-", "-", "-">>},
                    md \in MonthDayParts}

\* Values of no recognized shape.
OtherStrings ==
    {<<>>,
     <<"b", "i", "r", "t", "h", "d", "a", "y">>,
     <<"1", "9", "9", "0", "0", "5", "0", "5">>,
     <<"-", "-", "0", "2", "2", "9">>,
     <<"1", "9", "9", "0", "/", "0", "5", "/", "0", "5", "T">>,
     <<"-", "-", "0", "2", "-", "2", "9", "T", "0", "0">>}

BirthdayStrings == FullDateStrings \cup YearlessStrings \cup OtherStrings

-----------------------------------------------------------------------------
(* SpecProjector: one contact, with every BDAY value of BirthdayStrings, on every
   day of TodayDates. *)

ProjectorEnvelopes ==
    {<<VCard(Str("u1"), Str("Ann"), Str(b))>> : b \in BirthdayStrings}

ProjectorResponses == {HttpResponse(207, TRUE, e) : e \in ProjectorEnvelopes}

InitProjector ==
    /\ phase = "init"
    /\ data = None
    /\ response = NoResponse
    /\ created_uids = {}
    /\ sensors = <<>>
    /\ today \in TodayDates
    /\ aggregate = Pending

NextProjector ==
    \/ phase = "init" /\ \E resp \in ProjectorResponses : async_setup_entry(resp)
    \/ \E i \in 1..Len(sensors) : _get_next_birthday(i)
    \/ _get_next_birthday_data

SpecProjector == InitProjector /\ [][NextProjector]_vars

-----------------------------------------------------------------------------
(* SpecAggregator: collections of at most MaxContacts contacts whose birthdays tie,
   differ, have no year or do not parse, some sharing a uid. *)

MaxContacts == 2

Bday19900505 == <<"1", "9", "9", "0", "-", "0", "5", "-", "0", "5">>

Bday19850505 == <<"1", "9", "8", "5", "-", "0", "5", "-", "0", "5">>

Bday19900505T ==
    <<"1", "9", "9", "0", "-", "0", "5", "-", "0", "5",
      "T", "0", "0", ":", "0", "0", ":", "0", "0">>

Bday20000229 == <<"2", "0", "0", "0", "-", "0", "2", "-", "2", "9">>

BdayYearless0505 == <<"-", "-", "0", "5", "-", "0", "5">>

BdayDashes0505 == <<"-", "-", "-", "0", "5", "-", "0", "5">>

BdayLiteral == <<"b", "i", "r", "t", "h", "d", "a", "y">>

AggregatorCards ==
    {VCard(Str("u1"), Str("Ann"), Str(Bday19900505)),
     VCard(Str("u2"), Str("Bob"), Str(Bday19850505)),
     VCard(Str("u3"), Str("Cy"), Str(Bday19900505T)),
     VCard(Str("u1"), Str("Dan"), Str(Bday20000229)),
     VCard(Str("u4"), Str("Eve"), Str(BdayYearless0505)),
     VCard(Str("u5"), Str("Fay"), Str(BdayDashes0505)),
     VCard(Str("u6"), Str("Gus"), Str(BdayLiteral)),
     VCard(Str("u7"), Str("Ann"), Str(BdayDashes0505))}

AggregatorResponses ==
    {HttpResponse(207, TRUE, e) : e \in SeqsUpTo(AggregatorCards, MaxContacts)}

AggregatorDates == {dt \in TodayDates : dt.month \in {3, 5} /\ dt.day \in {2, 5, 6}}

InitAggregator ==
    /\ phase = "init"
    /\ data = None
    /\ response = NoResponse
    /\ created_uids = {}
    /\ sensors = <<>>
    /\ today \in AggregatorDates
    /\ aggregate = Pending

NextAggregator ==
    \/ phase = "init" /\ \E resp \in AggregatorResponses : async_setup_entry(resp)
    \/ \E i \in 1..Len(sensors) : _get_next_birthday(i)
    \/ _get_next_birthday_data

SpecAggregator == InitAggregator /\ [][NextAggregator]_vars

-----------------------------------------------------------------------------
(* SpecParser: the first refresh, for every answer whose envelope holds at most
   MaxCards cards, each with or without UID, FN and BDAY, or unreadable. *)

MaxCards == 2

ParserCards ==
    {[kind |-> "empty"], [kind |-> "garbage"]}
    \cup {VCard(uid, fn, bday) :
            uid \in {None, Str(""), Str("u1"), Str("u2")},
            fn \in {None, Str("Ann")},
            bday \in {None, Str(<<>>), Str(Bday19900505)}}

ParserResponses == Responses(SeqsUpTo(ParserCards, MaxCards), {<<>>})

InitParser ==
    /\ phase = "init"
    /\ data = None
    /\ response = NoResponse
    /\ created_uids = {}
    /\ sensors = <<>>
    /\ today = Date(2025, 3, 1)
    /\ aggregate = Pending

\* The set-up is tried, with any answer of the server, until it succeeds.
NextParser == phase = "init" /\ \E resp \in ParserResponses : async_setup_entry(resp)

SpecParser == InitParser /\ [][NextParser]_vars

-----------------------------------------------------------------------------
(* Spec: the integration over its life: set-up, then refresh cycles with every
   answer of a server whose address book holds four cards, any of them present
   or not, and the per-contact sensors evaluated in between. (The global sensor
   reads coordinator.data and writes nothing the others read; SpecAggregator
   covers it.) *)

\* The address book: an envelope holds some of its cards, in this order.
AddressBook ==
    <<VCard(Str("u1"), Str("Ann"), Str(Bday19900505)),
      [kind |-> "garbage"],
      VCard(Str("u1"), Str("Bob"), Str(Bday19850505)),
      VCard(Str("u2"), Str("Cy"), Str(Bday19900505))>>

\* The elements of seq at the indices of S, in the order of seq.
Pick(seq, S) ==
    [k \in 1..Cardinality(S) |->
        seq[CHOOSE i \in S : Cardinality({j \in S : j < i}) = k - 1]]

SystemEnvelopes == {Pick(AddressBook, S) : S \in SUBSET (1..Len(AddressBook))}

SystemResponses == Responses(SystemEnvelopes, {<<>>})

Init ==
    /\ phase = "init"
    /\ data = None
    /\ response = NoResponse
    /\ created_uids = {}
    /\ sensors = <<>>
    /\ today = Date(2025, 3, 1)
    /\ aggregate = Pending

Next ==
    \/ \E resp \in SystemResponses : async_setup_entry(resp)
    \/ \E resp \in SystemResponses : Refresh(resp)
    \/ \E i \in 1..Len(sensors) : _get_next_birthday(i)

Spec == Init /\ [][Next]_vars

-----------------------------------------------------------------------------
(* The specification's reading of a birthday string (spec.md 3 and 4.3), against
   which the claims are stated: YYYY-MM-DD, optionally followed by T and a time,
   or --MM-DD; every other form is unparsable. *)

TwoDigits(s, i) == IsDigit(At(s, i)) /\ IsDigit(At(s, i + 1))

\* s[i .. i+4] is MM-DD
MonthDayAt(s, i) == TwoDigits(s, i) /\ At(s, i + 2) = "-" /\ TwoDigits(s, i + 3)

\* YYYY-MM-DD, alone or followed by T and anything
FullDateShape(s) ==
    /\ Len(s) >= 10
    /\ TwoDigits(s, 1)
    /\ TwoDigits(s, 3)
    /\ At(s, 5) = "-"
    /\ MonthDayAt(s, 6)
    /\ (Len(s) = 10 \/ At(s, 11) = "T")

\* --MM-DD
YearlessShape(s) == Len(s) = 7 /\ At(s, 1) = "-" /\ At(s, 2) = "-" /\ MonthDayAt(s, 3)

\* The Birthday Specification (month, day, year_known, year) of a parsable
\* string, None for an unparsable one. A year-less birthday is valid when its day
\* exists in the leap year 2000.
BirthdaySpecification(s) ==
    IF FullDateShape(s) /\ ValidDate(IntOf(s, 1, 4), IntOf(s, 6, 2), IntOf(s, 9, 2))
    THEN [month |-> IntOf(s, 6, 2), day |-> IntOf(s, 9, 2),
          year_known |-> TRUE, year |-> IntOf(s, 1, 4)]
    ELSE IF YearlessShape(s) /\ ValidDate(2000, IntOf(s, 3, 2), IntOf(s, 6, 2))
    THEN [month |-> IntOf(s, 3, 2), day |-> IntOf(s, 6, 2),
          year_known |-> FALSE, year |-> 0]
    ELSE None

Parsable(s) == BirthdaySpecification(s) # None

\* Steps 1 and 2 of the projection rule: (month, day) placed in year y, March 1 of
\* y where that day does not exist.
Candidate(b, y) ==
    IF ValidDate(y, b.month, b.day) THEN Date(y, b.month, b.day) ELSE Date(y, 3, 1)

\* Steps 1 to 4: this year's candidate unless it is before today, else next year's.
ExpectedNext(b, tdy) ==
    IF DateLT(Candidate(b, tdy.year), tdy) THEN Candidate(b, tdy.year + 1)
    ELSE Candidate(b, tdy.year)

\* The sensors that have computed their state.
Evaluated == {i \in 1..Len(sensors) : sensors[i].state # Pending}

BirthdayOf(i) == sensors[i].contact.birthday

-----------------------------------------------------------------------------
(* Claims about the projection, under SpecProjector *)

\* C1: for every parsable birthday string (YYYY-MM-DD, optionally followed by T...,
\* or --MM-DD) and every today, _get_next_birthday returns as next_occurrence the
\* candidate of today's year when it is on or after today, else the candidate of
\* the next year; so next_occurrence >= today and its year is today's or the next.
C1_NextOccurrence ==
    \A i \in Evaluated :
        Parsable(BirthdayOf(i)) =>
            /\ sensors[i].state.next
                   = ExpectedNext(BirthdaySpecification(BirthdayOf(i)), today)
            /\ ~ DateLT(sensors[i].state.next, today)
            /\ sensors[i].state.next.year \in {today.year, today.year + 1}

\* The part of C1 that holds of the code: the same for the strings with a year.
C1_FullDateNextOccurrence ==
    \A i \in Evaluated :
        (Parsable(BirthdayOf(i)) /\ BirthdaySpecification(BirthdayOf(i)).year_known) =>
            /\ sensors[i].state.next
                   = ExpectedNext(BirthdaySpecification(BirthdayOf(i)), today)
            /\ ~ DateLT(sensors[i].state.next, today)
            /\ sensors[i].state.next.year \in {today.year, today.year + 1}

IsLeapDay(s) ==
    /\ Parsable(s)
    /\ BirthdaySpecification(s).month = 2
    /\ BirthdaySpecification(s).day = 29

YearlessLeapDay == <<"-", "-", "0", "2", "-", "2", "9">>

\* C2: a February 29 birthday, with or without a year, is projected to February 29
\* where the year it is placed in is a leap year and to March 1 of that year where
\* it is not, never to February 28; --02-29 gives 2025-03-01 on 2025-03-01 and
\* 2026-03-01 on 2025-03-02.
C2_LeapDay ==
    \A i \in Evaluated :
        IsLeapDay(BirthdayOf(i)) =>
            /\ sensors[i].state.next # None
            /\ sensors[i].state.next =
                   IF IsLeap(sensors[i].state.next.year)
                   THEN Date(sensors[i].state.next.year, 2, 29)
                   ELSE Date(sensors[i].state.next.year, 3, 1)
            /\ (BirthdayOf(i) = YearlessLeapDay /\ today = Date(2025, 3, 1))
                   => sensors[i].state.next = Date(2025, 3, 1)
            /\ (BirthdayOf(i) = YearlessLeapDay /\ today = Date(2025, 3, 2))
                   => sensors[i].state.next = Date(2026, 3, 1)

\* The part of C2 that holds of the code: the same for the strings with a year.
C2_FullDateLeapDay ==
    \A i \in Evaluated :
        (IsLeapDay(BirthdayOf(i)) /\ BirthdaySpecification(BirthdayOf(i)).year_known) =>
            /\ sensors[i].state.next # None
            /\ sensors[i].state.next =
                   IF IsLeap(sensors[i].state.next.year)
                   THEN Date(sensors[i].state.next.year, 2, 29)
                   ELSE Date(sensors[i].state.next.year, 3, 1)

\* C3: age_turning is present exactly when the birth year is known: it is None for
\* every string that starts with --, it is next_occurrence.year minus the birth
\* year for every parsable full date, and where it is present the string starts
\* with a year and the age is next_occurrence.year minus that year.
C3_AgeTurning ==
    \A i \in Evaluated :
        /\ StartsWithDashes(BirthdayOf(i)) => sensors[i].state.age = None
        /\ (Parsable(BirthdayOf(i)) /\ BirthdaySpecification(BirthdayOf(i)).year_known)
               => /\ sensors[i].state.next # None
                  /\ sensors[i].state.age
                         = IntVal(sensors[i].state.next.year
                                  - BirthdaySpecification(BirthdayOf(i)).year)
        /\ sensors[i].state.age # None
               => /\ sensors[i].state.next # None
                  /\ TwoDigits(BirthdayOf(i), 1)
                  /\ TwoDigits(BirthdayOf(i), 3)
                  /\ sensors[i].state.age
                         = IntVal(sensors[i].state.next.year - IntOf(BirthdayOf(i), 1, 4))

\* A leap-day birthday of 2000 evaluated on 2025-03-02: rolled over to 2026-03-01,
\* turning 26.
C3_Witness ==
    \E i \in Evaluated :
        /\ today = Date(2025, 3, 2)
        /\ IsLeapDay(BirthdayOf(i))
        /\ sensors[i].state.next = Date(2026, 3, 1)
        /\ sensors[i].state.age = IntVal(26)

-----------------------------------------------------------------------------
(* Claims about the aggregation, under SpecAggregator *)

\* The aggregate has been computed (from the collection the set-up published).
Aggregated == phase = "running" /\ data # None /\ aggregate # Pending

\* A sequence's members at the indices that satisfy Keep, in order.
Indices(n, Keep(_)) == SelectSeq([i \in 1..n |-> i], Keep)

\* days_until of a parsable record, by the projection rule.
SpecDaysUntil(c) ==
    DaysBetween(ExpectedNext(BirthdaySpecification(c.birthday), today), today)

SpecParsableRecords == SelectSeq(data.contacts, LAMBDA c : Parsable(c.birthday))

SpecTiedRecords ==
    SelectSeq(SpecParsableRecords,
              LAMBDA c : \A j \in 1..Len(SpecParsableRecords) :
                             SpecDaysUntil(c) <= SpecDaysUntil(SpecParsableRecords[j]))

\* C4: for a non-empty collection with at least one parsable birthday, the
\* aggregate's next_occurrence is the date with the minimum days_until over all
\* parsable records, and tied_names is exactly the names of the records at that
\* minimum, in the order in which they appear in the collection.
C4_MinimumAndTies ==
    (Aggregated /\ SpecParsableRecords # <<>>) =>
        /\ aggregate.next
               = ExpectedNext(BirthdaySpecification(SpecTiedRecords[1].birthday), today)
        /\ aggregate.names
               = [i \in 1..Len(SpecTiedRecords) |-> SpecTiedRecords[i].name]

\* The part of C4 that holds of the code: the same for the collections none of
\* whose birthdays starts with --.
C4_FullDateMinimumAndTies ==
    (/\ Aggregated
     /\ SpecParsableRecords # <<>>
     /\ \A i \in 1..Len(data.contacts) : ~ StartsWithDashes(data.contacts[i].birthday)) =>
        /\ aggregate.next
               = ExpectedNext(BirthdaySpecification(SpecTiedRecords[1].birthday), today)
        /\ aggregate.names
               = [i \in 1..Len(SpecTiedRecords) |-> SpecTiedRecords[i].name]

\* What the Projector returns for each record of the collection, in order.
RECURSIVE Projections(_, _)
Projections(contacts, tdy) ==
    IF contacts = <<>> THEN <<>>
    ELSE Append(Projections(SubSeq(contacts, 1, Len(contacts) - 1), tdy),
                NextBirthday(contacts[Len(contacts)].birthday, tdy))

\* The tied group: the indices, in order, of the records whose projection proj[i]
\* has the earliest next_occurrence.
IsTied(proj, i) ==
    /\ proj[i] # NoProjection
    /\ \A j \in 1..Len(proj) :
           proj[j] # NoProjection => ~ DateLT(proj[j].next, proj[i].next)

TiedGroup(proj) == SelectSeq([i \in 1..Len(proj) |-> i], LAMBDA i : IsTied(proj, i))

\* age_or_ages for the ages of the tied group, which has the names names.
AgeOrAgesIs(ages, names) ==
    /\ aggregate.names = names
    /\ IF \A k \in 1..Len(ages) : ages[k] = ages[1]
       THEN aggregate.age = [single |-> ages[1]]
       ELSE /\ aggregate.age = [list |-> ages]
            /\ Len(aggregate.age.list) = Len(aggregate.names)

TiedGroupHas(proj, tied) ==
    tied # <<>> =>
        AgeOrAgesIs([k \in 1..Len(tied) |-> proj[tied[k]].age],
                    [k \in 1..Len(tied) |-> data.contacts[tied[k]].name])

TiedGroupOf(proj) == TiedGroupHas(proj, TiedGroup(proj))

\* C5: age_or_ages is a single value when every tied record has the identical
\* age_turning (all None and a group of one included); otherwise it is the list of
\* the tied records' age_turning values, as long as tied_names and in its order.
C5_AgeOrAges == Aggregated => TiedGroupOf(Projections(data.contacts, today))

\* Two records tie with different ages: the aggregate carries both, in order.
C5_Witness ==
    /\ Aggregated
    /\ Len(aggregate.names) = 2
    /\ aggregate.age = [list |-> <<IntVal(aggregate.next.year - 1990),
                                   IntVal(aggregate.next.year - 1985)>>]

\* C6: a birthday string that matches neither parsing rule or fails strict parsing
\* makes the Projector return (None, None); such a contact is not in tied_names and
\* does not influence the aggregate (the aggregate is that of the collection
\* without it); with no parsable record the aggregate is exactly (None, [], None).
C6_Unparsable ==
    /\ \A i \in Evaluated :
           ~ Parsable(BirthdayOf(i)) => sensors[i].state = NoProjection
    /\ Aggregated =>
           /\ aggregate = NextBirthdayData(Loaded(SpecParsableRecords), today)
           /\ SpecParsableRecords = <<>> => aggregate = EmptyAggregate

\* The sensors were created one per record, all have computed their state, and no
\* two records share a uid.
AllEvaluated ==
    /\ Aggregated
    /\ Len(sensors) = Len(data.contacts)
    /\ Evaluated = 1..Len(sensors)
    /\ \A i, j \in 1..Len(data.contacts) :
           data.contacts[i].uid = data.contacts[j].uid => i = j

\* The sensors whose projection is not (None, None), and those of them whose
\* next_occurrence is the earliest.
ProjectedSensors == {i \in Evaluated : sensors[i].state # NoProjection}

EarliestSensors ==
    {i \in ProjectedSensors :
        \A j \in ProjectedSensors :
            ~ DateLT(sensors[j].state.next, sensors[i].state.next)}

IsEarliest(i) == i \in EarliestSensors

EarliestInOrder == Indices(Len(sensors), IsEarliest)

\* C9: what _get_next_birthday_data computes for a record is what
\* _get_next_birthday returns for it, and a record is dropped exactly when the
\* Projector returns (None, None): for a collection with distinct uids the
\* aggregate is empty when every sensor's result is (None, None), and else its
\* next_occurrence is the minimum of the sensors' next_occurrence values, its
\* names are those of the sensors at the minimum and its ages are theirs.
C9_AggregatorAgreesWithProjector ==
    AllEvaluated =>
        IF ProjectedSensors = {} THEN aggregate = EmptyAggregate
        ELSE /\ \A i \in EarliestSensors : aggregate.next = sensors[i].state.next
             /\ aggregate.names
                    = [k \in 1..Len(EarliestInOrder) |->
                          sensors[EarliestInOrder[k]].contact.name]
             /\ aggregate.age
                    = FinalAge([k \in 1..Len(EarliestInOrder) |->
                                   sensors[EarliestInOrder[k]].state.age])

\* Two records with distinct uids, one whose birthday is today and one dropped by
\* both computations.
C9_Witness ==
    /\ AllEvaluated
    /\ Len(sensors) = 2
    /\ sensors[1].state.next = today
    /\ sensors[2].state = NoProjection
    /\ aggregate.next = today

-----------------------------------------------------------------------------
(* Claims about the parser, under SpecParser *)

\* A card has a UID when its UID line carries a value, and a BDAY when it has a
\* BDAY line.
HasUid(card) == card.uid # None /\ card.uid.str # ""

Keeps(card) == card.kind = "vcard" /\ HasUid(card) /\ card.bday # None

RecordOf(card) ==
    Contact(card.uid.str,
            IF card.fn # None THEN card.fn.str ELSE "Unknown",
            card.bday.str)

KeptCards(cards) == SelectSeq(cards, Keeps)

ExpectedRecords(cards) ==
    [i \in 1..Len(KeptCards(cards)) |-> RecordOf(KeptCards(cards)[i])]

\* C7: for every well-formed envelope the parser returns one record for each card
\* that parses and has both a UID and a BDAY, and for no other card; a card without
\* FN is kept under the placeholder name; the records are in envelope order and
\* records that share a uid are all kept.
C7_ParsedRecords ==
    phase = "running" => data = Loaded(ExpectedRecords(response.cards))

\* Two cards, one of them without UID: exactly one record.
C7_Witness ==
    /\ phase = "running"
    /\ Len(response.cards) = 2
    /\ response.cards[1].kind = "vcard"
    /\ response.cards[1].uid = None
    /\ response.cards[1].bday # None
    /\ Len(data.contacts) = 1
    /\ data.contacts[1].name = "Unknown"

-----------------------------------------------------------------------------
(* Claims about the refresh cycle and the sensors, under Spec *)

CycleFailed(resp) ==
    \/ resp.transport # "ok"
    \/ resp.status \notin {200, 207}
    \/ ~ resp.wellformed

\* C8: a cycle that fails (transport error, a status other than 207 or 200, or an
\* envelope that is not well-formed) ends in the one failure condition and leaves
\* the coordinator's collection as it was; a cycle with status 207 or 200 and a
\* well-formed envelope replaces the collection with the newly parsed records.
C8_FailedCyclePublishesNothing ==
    [][IF CycleFailed(response')
       THEN AsyncUpdateData(response') = UpdateFailed /\ data' = data
       ELSE data' = Loaded(ExpectedRecords(response'.cards))]_vars

\* A cycle has failed after one that published records, and they are still there.
C8_Witness ==
    /\ phase = "running"
    /\ response.transport = "ok"
    /\ response.status = 404
    /\ data # None
    /\ Len(data.contacts) = 3

\* C10: no two created sensors share the unique id <uid>_birthday, also when a
\* published collection holds several records with one uid, and every uid of a
\* non-empty published collection has a sensor once the update is handled.
C10_OneSensorPerUid ==
    /\ \A i, j \in 1..Len(sensors) :
           sensors[i].unique_id = sensors[j].unique_id => i = j
    /\ (phase = "running" /\ data # None) =>
           \A k \in 1..Len(data.contacts) :
               \E i \in 1..Len(sensors) :
                   sensors[i].unique_id = <<data.contacts[k].uid, "_birthday">>

\* The parts of C10 that hold of the code: every uid of the published collection
\* has a sensor, and the listener creates no sensor for a uid that has one.
C10_EveryUidHasSensor ==
    (phase = "running" /\ data # None) =>
        \A k \in 1..Len(data.contacts) :
            \E i \in 1..Len(sensors) :
                sensors[i].unique_id = <<data.contacts[k].uid, "_birthday">>

C10_ListenerAddsNoDuplicate ==
    [][phase = "running" =>
          \A i \in (Len(sensors) + 1)..Len(sensors') :
              \A j \in 1..Len(sensors') :
                  sensors'[i].unique_id = sensors'[j].unique_id => i = j]_vars

\* The positions in the collection cs of the records with uid u.
RecordsWithUid(cs, u) == {k \in 1..Len(cs) : cs[k].uid = u}

\* The sensor at position i has just been evaluated, from the record it held (old)
\* to the record it holds (new), with the collection cs current.
ProjectsFromCurrent(old, new, cs) ==
    /\ new.contact.uid = old.contact.uid
    /\ new.unique_id = old.unique_id
    /\ IF RecordsWithUid(cs, old.contact.uid) = {}
       THEN new.contact = old.contact
       ELSE /\ \E k \in RecordsWithUid(cs, old.contact.uid) :
                   /\ new.contact = cs[k]
                   /\ \A j \in RecordsWithUid(cs, old.contact.uid) : k <= j
    /\ new.state = NextBirthday(new.contact.birthday, today)

\* C11: a sensor for uid u projects from the first record with uid u of the
\* coordinator's current collection, and from the record it last held when the
\* collection has none; it never takes a record with another uid, and evaluating
\* it leaves the coordinator's collection as it is. Refresh cycles change no
\* sensor that exists.
C11_SensorFollowsItsUid ==
    [][\A i \in 1..Len(sensors) :
          /\ i <= Len(sensors')
          /\ sensors'[i] # sensors[i] =>
                 /\ data' = data
                 /\ ProjectsFromCurrent(sensors[i], sensors'[i], data.contacts)]_vars

\* The sensor of u1 has taken up the record named Bob and, evaluated again with no
\* record of u1 in the collection, still projects from it.
C11_Witness ==
    /\ phase = "running"
    /\ data # None
    /\ data.contacts # <<>>
    /\ RecordsWithUid(data.contacts, "u1") = {}
    /\ Len(sensors) = 2
    /\ sensors[1].unique_id = <<"u1", "_birthday">>
    /\ sensors[1].contact.name = "Bob"
    /\ sensors[1].state = NextBirthday(Bday19850505, today)
    /\ sensors[1].state.age = IntVal(40)

====
